---------------------------- MODULE Spec2Model ----------------------------
(***************************************************************************)
(* A model of the 2x2 matrix / 2-vector library (src/src/lib.rs) and of    *)
(* its transform catalogue (src/src/linear_transforms.rs).                 *)
(*                                                                         *)
(* The library is generic over the element type T.  The model fixes        *)
(* T = i32, the element type of the catalogue constants, and keeps its     *)
(* width: a product or sum that leaves the i32 range panics when the crate *)
(* is built with overflow checks (the debug and test profiles) and wraps   *)
(* modulo 2^32 otherwise (the release profile).  The build is the variable *)
(* overflow_checks, chosen once in Init.                                   *)
(*                                                                         *)
(* The state is a caller's: its operands, the expression it has evaluated  *)
(* so far (call) and what that expression produced (out; prev holds an     *)
(* earlier result the expression still needs).  Every action is one call   *)
(* of one library operation.                                               *)
(***************************************************************************)
EXTENDS Integers, Sequences, FiniteSets, TLC

VARIABLES overflow_checks, lhs, rhs, third, call, out, prev

vars == <<overflow_checks, lhs, rhs, third, call, out, prev>>

(***************************************************************************)
(* Bounds of the model.                                                    *)
(***************************************************************************)
\* Operand components range over -1..MaxElem and the two ends of i32.
MaxElem == 0

(***************************************************************************)
(* The element type T = i32.                                               *)
(***************************************************************************)
I32_MAX == 2147483647
I32_MIN == -I32_MAX - 1

\* The outcome of an evaluation: a value, or a panic that unwinds the call.
Ret(v) == [ok |-> TRUE, val |-> v]
Panic == [ok |-> FALSE]

\* x + y leaves the i32 range.
AddOverflows(x, y) ==
    \/ y > 0 /\ x > I32_MAX - y
    \/ y < 0 /\ x < I32_MIN - y

\* x + y modulo 2^32, in two's complement.
WrappingAdd(x, y) ==
    IF y > 0 /\ x > I32_MAX - y
    THEN ((x - I32_MAX) - 1) + ((y - I32_MAX) - 1)
    ELSE IF y < 0 /\ x < I32_MIN - y
         THEN ((x + I32_MAX) + 1) + ((y + I32_MAX) + 1)
         ELSE x + y

\* x * y leaves the i32 range.
MulOverflows(x, y) ==
    IF x = 0 \/ y = 0 THEN FALSE
    ELSE IF x > 0 /\ y > 0 THEN x > I32_MAX \div y
    ELSE IF x > 0 /\ y < 0 THEN y < (I32_MIN + x - 1) \div x
    ELSE IF x < 0 /\ y > 0 THEN x < (I32_MIN + y - 1) \div y
    ELSE x = I32_MIN \/ y = I32_MIN \/ (-x) > I32_MAX \div (-y)

\* Byte i (0 = least significant) of the two's complement pattern of x.
Byte(x, i) ==
    LET p == CASE i = 0 -> 1 [] i = 1 -> 256 [] i = 2 -> 65536 [] i = 3 -> 16777216
    IN  (x \div p) % 256

\* x * y modulo 2^32, in two's complement: the low four bytes of the
\* schoolbook product of the two bit patterns.
WrappingMul(x, y) ==
    IF ~MulOverflows(x, y) THEN x * y
    ELSE
    LET a0 == Byte(x, 0)  a1 == Byte(x, 1)  a2 == Byte(x, 2)  a3 == Byte(x, 3)
        b0 == Byte(y, 0)  b1 == Byte(y, 1)  b2 == Byte(y, 2)  b3 == Byte(y, 3)
        c0 == a0 * b0
        c1 == a0 * b1 + a1 * b0 + (c0 \div 256)
        c2 == a0 * b2 + a1 * b1 + a2 * b0 + (c1 \div 256)
        c3 == a0 * b3 + a1 * b2 + a2 * b1 + a3 * b0 + (c2 \div 256)
        r0 == c0 % 256
        r1 == c1 % 256
        r2 == c2 % 256
        r3 == c3 % 256
    IN  (IF r3 >= 128 THEN r3 - 256 ELSE r3) * 16777216
            + r2 * 65536 + r1 * 256 + r0

\* Mutant of TMul: the product never checks for overflow (wrapping_mul).
TMul_Unchecked(x, y) == Ret(WrappingMul(x, y))

\* T's `*` on two values (i32::mul).
TMul(x, y) ==
    IF overflow_checks /\ MulOverflows(x, y) THEN Panic ELSE Ret(WrappingMul(x, y))

\* T's `+` on the outcomes of its two operand expressions, evaluated left to
\* right: a panic in an operand unwinds before the addition (i32::add).
TAdd(p, q) ==
    IF ~p.ok THEN Panic
    ELSE IF ~q.ok THEN Panic
    ELSE IF overflow_checks /\ AddOverflows(p.val, q.val) THEN Panic
    ELSE Ret(WrappingAdd(p.val, q.val))

(***************************************************************************)
(* Matrix<T> and Vector<T>: construction and the vanilla methods.          *)
(***************************************************************************)
MatrixNew(a, b, c, d) == [a |-> a, b |-> b, c |-> c, d |-> d]

VectorNew(x, y) == [x |-> x, y |-> y]

\* Matrix::new / Vector::new on argument expressions that may panic: the
\* arguments are evaluated first, and a panic in one unwinds the call.
MatrixOf(pa, pb, pc, pd) ==
    IF pa.ok /\ pb.ok /\ pc.ok /\ pd.ok
    THEN Ret(MatrixNew(pa.val, pb.val, pc.val, pd.val))
    ELSE Panic

VectorOf(px, py) ==
    IF px.ok /\ py.ok THEN Ret(VectorNew(px.val, py.val)) ELSE Panic

\* Mutant of MatrixFromVectors: the vectors are taken as rows.
MatrixFromVectors_AsRows(left, right) == MatrixNew(left.x, left.y, right.x, right.y)

MatrixFromVectors(left, right) == MatrixNew(left.x, right.x, left.y, right.y)

MatrixScale(self, factor) ==
    MatrixOf(TMul(factor, self.a), TMul(factor, self.b),
             TMul(factor, self.c), TMul(factor, self.d))

\* Mutant of MatrixTranspose: self.c is copied to both off-diagonal places.
MatrixTranspose_Copied(self) == MatrixNew(self.a, self.c, self.c, self.d)

MatrixTranspose(self) == MatrixNew(self.a, self.c, self.b, self.d)

MatrixLeft(self) == VectorNew(self.a, self.c)

MatrixRight(self) == VectorNew(self.b, self.d)

VectorScale(self, factor) ==
    VectorOf(TMul(factor, self.x), TMul(factor, self.y))

(***************************************************************************)
(* The operator methods.                                                   *)
(***************************************************************************)
\* Mutant of MatrixAdd: the last component adds rhs.a.
MatrixAdd_WrongField(self, r) ==
    MatrixOf(TAdd(Ret(self.a), Ret(r.a)), TAdd(Ret(self.b), Ret(r.b)),
             TAdd(Ret(self.c), Ret(r.c)), TAdd(Ret(self.d), Ret(r.a)))

MatrixAdd(self, r) ==
    MatrixOf(TAdd(Ret(self.a), Ret(r.a)), TAdd(Ret(self.b), Ret(r.b)),
             TAdd(Ret(self.c), Ret(r.c)), TAdd(Ret(self.d), Ret(r.d)))

VectorAdd(self, r) ==
    VectorOf(TAdd(Ret(self.x), Ret(r.x)), TAdd(Ret(self.y), Ret(r.y)))

MatrixMulScalar(self, r) ==
    MatrixOf(TMul(r, self.a), TMul(r, self.b), TMul(r, self.c), TMul(r, self.d))

\* Mutant of MatrixMulVector: the columns of self are used as its rows.
MatrixMulVector_Transposed(self, r) ==
    VectorOf(TAdd(TMul(self.a, r.x), TMul(self.c, r.y)),
             TAdd(TMul(self.b, r.x), TMul(self.d, r.y)))

MatrixMulVector(self, r) ==
    VectorOf(TAdd(TMul(self.a, r.x), TMul(self.b, r.y)),
             TAdd(TMul(self.c, r.x), TMul(self.d, r.y)))

\* Mutant of MatrixMulMatrix: the operands are exchanged (rhs * self).
MatrixMulMatrix_Swapped(self, r) ==
    MatrixOf(TAdd(TMul(r.a, self.a), TMul(r.b, self.c)),
             TAdd(TMul(r.a, self.b), TMul(r.b, self.d)),
             TAdd(TMul(r.c, self.a), TMul(r.d, self.c)),
             TAdd(TMul(r.c, self.b), TMul(r.d, self.d)))

\* Mutant of MatrixMulMatrix: rows of self meet rows of rhs.
MatrixMulMatrix_RowByRow(self, r) ==
    MatrixOf(TAdd(TMul(self.a, r.a), TMul(self.b, r.b)),
             TAdd(TMul(self.a, r.c), TMul(self.b, r.d)),
             TAdd(TMul(self.c, r.a), TMul(self.d, r.b)),
             TAdd(TMul(self.c, r.c), TMul(self.d, r.d)))

MatrixMulMatrix(self, r) ==
    MatrixOf(TAdd(TMul(self.a, r.a), TMul(self.b, r.c)),
             TAdd(TMul(self.a, r.b), TMul(self.b, r.d)),
             TAdd(TMul(self.c, r.a), TMul(self.d, r.c)),
             TAdd(TMul(self.c, r.b), TMul(self.d, r.d)))

\* Mutant of VectorMulScalar: both components scale self.x.
VectorMulScalar_XTwice(self, r) ==
    VectorOf(TMul(r, self.x), TMul(r, self.x))

VectorMulScalar(self, r) ==
    VectorOf(TMul(r, self.x), TMul(r, self.y))

(***************************************************************************)
(* The transform catalogue.                                                *)
(***************************************************************************)
IDENTITY == [a |-> 1, b |-> 0, c |-> 0, d |-> 1]

\* Mutant of ROTATE_90: the quarter turn goes the other way.
ROTATE_90_Clockwise == [a |-> 0, b |-> 1, c |-> -1, d |-> 0]

ROTATE_90 == [a |-> 0, b |-> -1, c |-> 1, d |-> 0]

ROTATE_180 == [a |-> -1, b |-> 0, c |-> 0, d |-> -1]

\* Mutant of ROTATE_270: the half turn's entries.
ROTATE_270_HalfTurn == [a |-> -1, b |-> 0, c |-> 0, d |-> -1]

ROTATE_270 == [a |-> 0, b |-> 1, c |-> -1, d |-> 0]

FLIP_X == [a |-> -1, b |-> 0, c |-> 0, d |-> 1]

FLIP_Y == [a |-> 1, b |-> 0, c |-> 0, d |-> -1]

Catalogue == {IDENTITY, ROTATE_90, ROTATE_180, ROTATE_270, FLIP_X, FLIP_Y}

(***************************************************************************)
(* The operands a caller may hold.                                         *)
(***************************************************************************)
Elems == {I32_MIN, I32_MAX} \cup (-1..MaxElem)

\* The operands of the repository's tests.
TestMatrix == MatrixNew(1, 2, 3, 4)

TestVectors == {VectorNew(5, 6), VectorNew(1, 2), VectorNew(1, 3), VectorNew(2, 4)}

TestScalars == {10, 2}

Matrices ==
    {MatrixNew(a, b, c, d) : a \in Elems, b \in Elems, c \in Elems, d \in Elems}
        \cup Catalogue \cup {TestMatrix}

Vectors == {VectorNew(x, y) : x \in Elems, y \in Elems} \cup TestVectors

Scalars == Elems \cup TestScalars

\* The matrices of the three-factor products: the diagonal ones, the
\* catalogue and the tests' matrix.
AssocMatrices ==
    {MatrixNew(a, 0, 0, d) : a \in Elems, d \in Elems} \cup Catalogue \cup {TestMatrix}

\* An operand with its static type, which selects the impl of `+` and `*`.
Operand(kind, val) == [kind |-> kind, val |-> val]

NoArg == [kind |-> "none"]

\* No call has been made yet.
Pending == [pending |-> TRUE]

(***************************************************************************)
(* Init: the caller holds its operands and has called nothing.             *)
(***************************************************************************)
Init ==
    /\ overflow_checks \in BOOLEAN
    /\ \/ /\ lhs \in {Operand("matrix", m) : m \in Matrices}
          /\ \/ rhs = NoArg
             \/ rhs \in {Operand("matrix", m) : m \in Matrices}
             \/ rhs \in {Operand("vector", v) : v \in Vectors}
             \/ rhs \in {Operand("scalar", k) : k \in Scalars}
       \/ /\ lhs \in {Operand("vector", v) : v \in Vectors}
          /\ \/ rhs \in {Operand("vector", v) : v \in Vectors}
             \/ rhs \in {Operand("scalar", k) : k \in Scalars}
    /\ third = NoArg
    /\ call = "init"
    /\ out = Pending
    /\ prev = Pending

(***************************************************************************)
(* The calls.                                                              *)
(***************************************************************************)
\* Matrix::from_vectors(l, r), on the caller's two vectors or on the two
\* columns it has just split a matrix into.
CallFromVectors ==
    /\ \/ /\ call = "init"
          /\ lhs.kind = "vector" /\ rhs.kind = "vector"
          /\ out' = Ret(MatrixFromVectors(lhs.val, rhs.val))
          /\ call' = "from_vectors(l, r)"
       \/ /\ call = "m.left(), m.right()"
          /\ out' = Ret(MatrixFromVectors(prev.val, out.val))
          /\ call' = "from_vectors(m.left(), m.right())"
    /\ UNCHANGED <<overflow_checks, lhs, rhs, third, prev>>

\* m.left(), on the caller's matrix or on the matrix just built from vectors.
CallLeft ==
    /\ \/ /\ call = "init"
          /\ lhs.kind = "matrix" /\ rhs.kind = "none"
          /\ out' = Ret(MatrixLeft(lhs.val))
          /\ call' = "m.left()"
       \/ /\ call = "from_vectors(l, r)"
          /\ out' = Ret(MatrixLeft(out.val))
          /\ call' = "from_vectors(l, r).left()"
    /\ UNCHANGED <<overflow_checks, lhs, rhs, third, prev>>

\* m.right(), on the caller's matrix (alone, or after m.left(), whose result
\* is kept) or on the matrix just built from vectors.
CallRight ==
    /\ \/ /\ call = "init"
          /\ lhs.kind = "matrix" /\ rhs.kind = "none"
          /\ out' = Ret(MatrixRight(lhs.val))
          /\ call' = "m.right()"
          /\ prev' = prev
       \/ /\ call = "m.left()"
          /\ out' = Ret(MatrixRight(lhs.val))
          /\ call' = "m.left(), m.right()"
          /\ prev' = out
       \/ /\ call = "from_vectors(l, r)"
          /\ out' = Ret(MatrixRight(out.val))
          /\ call' = "from_vectors(l, r).right()"
          /\ prev' = prev
    /\ UNCHANGED <<overflow_checks, lhs, rhs, third>>

\* m.transpose(), on the caller's matrix or on its transpose.
CallTranspose ==
    /\ \/ /\ call = "init"
          /\ lhs.kind = "matrix" /\ rhs.kind = "none"
          /\ out' = Ret(MatrixTranspose(lhs.val))
          /\ call' = "m.transpose()"
       \/ /\ call = "m.transpose()"
          /\ out' = Ret(MatrixTranspose(out.val))
          /\ call' = "m.transpose().transpose()"
    /\ UNCHANGED <<overflow_checks, lhs, rhs, third, prev>>

\* m.scale(k)
CallMatrixScale ==
    /\ call = "init"
    /\ lhs.kind = "matrix" /\ rhs.kind = "scalar"
    /\ out' = MatrixScale(lhs.val, rhs.val)
    /\ call' = "m.scale(k)"
    /\ UNCHANGED <<overflow_checks, lhs, rhs, third, prev>>

\* v.scale(k)
CallVectorScale ==
    /\ call = "init"
    /\ lhs.kind = "vector" /\ rhs.kind = "scalar"
    /\ out' = VectorScale(lhs.val, rhs.val)
    /\ call' = "v.scale(k)"
    /\ UNCHANGED <<overflow_checks, lhs, rhs, third, prev>>

\* m + n
CallMatrixAdd ==
    /\ call = "init"
    /\ lhs.kind = "matrix" /\ rhs.kind = "matrix"
    /\ out' = MatrixAdd(lhs.val, rhs.val)
    /\ call' = "m + n"
    /\ UNCHANGED <<overflow_checks, lhs, rhs, third, prev>>

\* v + w
CallVectorAdd ==
    /\ call = "init"
    /\ lhs.kind = "vector" /\ rhs.kind = "vector"
    /\ out' = VectorAdd(lhs.val, rhs.val)
    /\ call' = "v + w"
    /\ UNCHANGED <<overflow_checks, lhs, rhs, third, prev>>

\* m * k
CallMatrixMulScalar ==
    /\ call = "init"
    /\ lhs.kind = "matrix" /\ rhs.kind = "scalar"
    /\ out' = MatrixMulScalar(lhs.val, rhs.val)
    /\ call' = "m * k"
    /\ UNCHANGED <<overflow_checks, lhs, rhs, third, prev>>

\* m * v
CallMatrixMulVector ==
    /\ call = "init"
    /\ lhs.kind = "matrix" /\ rhs.kind = "vector"
    /\ out' = MatrixMulVector(lhs.val, rhs.val)
    /\ call' = "m * v"
    /\ UNCHANGED <<overflow_checks, lhs, rhs, third, prev>>

\* m * n
CallMatrixMulMatrix ==
    /\ call = "init"
    /\ lhs.kind = "matrix" /\ rhs.kind = "matrix" /\ third.kind = "none"
    /\ out' = MatrixMulMatrix(lhs.val, rhs.val)
    /\ call' = "m * n"
    /\ UNCHANGED <<overflow_checks, lhs, rhs, third, prev>>

\* v * k
CallVectorMulScalar ==
    /\ call = "init"
    /\ lhs.kind = "vector" /\ rhs.kind = "scalar"
    /\ out' = VectorMulScalar(lhs.val, rhs.val)
    /\ call' = "v * k"
    /\ UNCHANGED <<overflow_checks, lhs, rhs, third, prev>>

Next ==
    \/ CallFromVectors
    \/ CallLeft
    \/ CallRight
    \/ CallTranspose
    \/ CallMatrixScale
    \/ CallVectorScale
    \/ CallMatrixAdd
    \/ CallVectorAdd
    \/ CallMatrixMulScalar
    \/ CallMatrixMulVector
    \/ CallMatrixMulMatrix
    \/ CallVectorMulScalar

Spec == Init /\ [][Next]_vars

(***************************************************************************)
(* Three-factor products: the caller holds matrices a, b, c (lhs, rhs,     *)
(* third) and evaluates (a * b) * c, keeps the result, then evaluates      *)
(* a * (b * c).  A panic in the inner product unwinds the whole            *)
(* expression.                                                             *)
(***************************************************************************)
InitAssoc ==
    /\ overflow_checks \in BOOLEAN
    /\ lhs \in {Operand("matrix", m) : m \in AssocMatrices}
    /\ rhs \in {Operand("matrix", m) : m \in AssocMatrices}
    /\ third \in {Operand("matrix", m) : m \in AssocMatrices}
    /\ call = "init"
    /\ out = Pending
    /\ prev = Pending

CallMatrixMulMatrixChain ==
    /\ third.kind = "matrix"
    /\ \/ /\ call = "init"
          /\ out' = MatrixMulMatrix(lhs.val, rhs.val)
          /\ call' = "a * b"
          /\ prev' = prev
       \/ /\ call = "a * b"
          /\ out' = IF out.ok THEN MatrixMulMatrix(out.val, third.val) ELSE Panic
          /\ call' = "(a * b) * c"
          /\ prev' = prev
       \/ /\ call = "(a * b) * c"
          /\ out' = MatrixMulMatrix(rhs.val, third.val)
          /\ call' = "b * c"
          /\ prev' = out
       \/ /\ call = "b * c"
          /\ out' = IF out.ok THEN MatrixMulMatrix(lhs.val, out.val) ELSE Panic
          /\ call' = "a * (b * c)"
          /\ prev' = prev
    /\ UNCHANGED <<overflow_checks, lhs, rhs, third>>

NextAssoc == CallMatrixMulMatrixChain

SpecAssoc == InitAssoc /\ [][NextAssoc]_vars

(***************************************************************************)
(* The claims.  An equation between two expressions of the library is read *)
(* as one between their outcomes in T's arithmetic: both return the same   *)
(* value, or both panic.                                                   *)
(***************************************************************************)
\* Components whose products, and sums of two products, stay within i32, so
\* that the integers' own arithmetic states the expected value.
SmallT(x) == -32768 < x /\ x < 32768

SmallMatrix(m) == SmallT(m.a) /\ SmallT(m.b) /\ SmallT(m.c) /\ SmallT(m.d)

SmallVector(v) == SmallT(v.x) /\ SmallT(v.y)

\* T's unary minus, which the catalogue claims use to state (-y, x): -x, and
\* at i32::MIN a panic under overflow checks or i32::MIN without them.
NegT(x) ==
    IF x = I32_MIN
    THEN (IF overflow_checks THEN Panic ELSE Ret(I32_MIN))
    ELSE Ret(-x)

\* C1: the column round trip is exact.  from_vectors(m.left(), m.right()) is
\* m again; from_vectors(l, r).left() is l and .right() is r; the left
\* column is (a, c) and the right column is (b, d).
C1_RoundTrip ==
    /\ call = "from_vectors(m.left(), m.right())" => out = Ret(lhs.val)
    /\ call = "from_vectors(l, r).left()" => out = Ret(lhs.val)
    /\ call = "from_vectors(l, r).right()" => out = Ret(rhs.val)
    /\ call = "m.left()" => out = Ret(VectorNew(lhs.val.a, lhs.val.c))
    /\ call = "m.right()" => out = Ret(VectorNew(lhs.val.b, lhs.val.d))
    /\ call = "m.left(), m.right()" =>
           /\ prev = Ret(VectorNew(lhs.val.a, lhs.val.c))
           /\ out = Ret(VectorNew(lhs.val.b, lhs.val.d))

C1_Witness ==
    /\ call = "from_vectors(m.left(), m.right())"
    /\ lhs.val = TestMatrix
    /\ prev = Ret(VectorNew(1, 3))
    /\ out = Ret(TestMatrix)

\* C2: Matrix * Matrix is the standard 2x2 product, each entry the row of
\* the left operand times the column of the right one, in T's arithmetic;
\* on small components it is the integers' a1*a2 + b1*c2, ...; and
\* Matrix(1,2,3,4) * Matrix(1,2,3,4) is Matrix(7,10,15,22).
C2_MatrixProduct ==
    call = "m * n" =>
        LET m == lhs.val
            n == rhs.val
            Dot(p, x, q, y) == TAdd(TMul(p, x), TMul(q, y))
        IN  /\ out = MatrixOf(Dot(m.a, n.a, m.b, n.c), Dot(m.a, n.b, m.b, n.d),
                              Dot(m.c, n.a, m.d, n.c), Dot(m.c, n.b, m.d, n.d))
            /\ SmallMatrix(m) /\ SmallMatrix(n) =>
                   out = Ret(MatrixNew(m.a * n.a + m.b * n.c, m.a * n.b + m.b * n.d,
                                       m.c * n.a + m.d * n.c, m.c * n.b + m.d * n.d))
            /\ m = TestMatrix /\ n = TestMatrix => out = Ret(MatrixNew(7, 10, 15, 22))

C2_Witness ==
    /\ call = "m * n"
    /\ lhs.val = TestMatrix
    /\ rhs.val = TestMatrix
    /\ out = Ret(MatrixNew(7, 10, 15, 22))

\* C3: Matrix * Vector is the standard product, x = a*v.x + b*v.y and
\* y = c*v.x + d*v.y in T's arithmetic; on small components it is the
\* integers' value; and Matrix(1,2,3,4) * Vector(5,6) is Vector(17,39).
C3_MatrixVectorProduct ==
    call = "m * v" =>
        LET m == lhs.val
            v == rhs.val
        IN  /\ out = VectorOf(TAdd(TMul(m.a, v.x), TMul(m.b, v.y)),
                              TAdd(TMul(m.c, v.x), TMul(m.d, v.y)))
            /\ SmallMatrix(m) /\ SmallVector(v) =>
                   out = Ret(VectorNew(m.a * v.x + m.b * v.y, m.c * v.x + m.d * v.y))
            /\ m = TestMatrix /\ v = VectorNew(5, 6) => out = Ret(VectorNew(17, 39))

C3_Witness ==
    /\ call = "m * v"
    /\ lhs.val = TestMatrix
    /\ rhs.val = VectorNew(5, 6)
    /\ out = Ret(VectorNew(17, 39))

\* C4: the scalar operator is the same function as scale: m.scale(k) and
\* m * k have the same outcome, and so have v.scale(k) and v * k; each
\* component is k times the operand's component (T's product; the integers'
\* product on small components).
C4_ScaleIsMulScalar ==
    /\ call = "m.scale(k)" => out = MatrixMulScalar(lhs.val, rhs.val)
    /\ call = "v.scale(k)" => out = VectorMulScalar(lhs.val, rhs.val)
    /\ call = "m * k" => out = MatrixScale(lhs.val, rhs.val)
    /\ call = "v * k" => out = VectorScale(lhs.val, rhs.val)
    /\ call \in {"m.scale(k)", "m * k"} =>
           LET m == lhs.val
               k == rhs.val
           IN  /\ out = MatrixOf(TMul(k, m.a), TMul(k, m.b), TMul(k, m.c), TMul(k, m.d))
               /\ SmallMatrix(m) /\ SmallT(k) =>
                      out = Ret(MatrixNew(k * m.a, k * m.b, k * m.c, k * m.d))
    /\ call \in {"v.scale(k)", "v * k"} =>
           LET v == lhs.val
               k == rhs.val
           IN  /\ out = VectorOf(TMul(k, v.x), TMul(k, v.y))
               /\ SmallVector(v) /\ SmallT(k) => out = Ret(VectorNew(k * v.x, k * v.y))

C4_Witness ==
    /\ call = "m * k"
    /\ lhs.val = TestMatrix
    /\ rhs.val = 10
    /\ out = Ret(MatrixNew(10, 20, 30, 40))
    /\ out = MatrixScale(lhs.val, rhs.val)

\* C5: addition is componentwise, and doubling agrees with scaling by 2:
\* m + m and m.scale(2) have the same outcome, and so have v + v and
\* v.scale(2).
C5_DoublingIsScaleByTwo ==
    /\ call = "m + n" =>
           LET m == lhs.val
               n == rhs.val
           IN  /\ out = MatrixOf(TAdd(Ret(m.a), Ret(n.a)), TAdd(Ret(m.b), Ret(n.b)),
                                 TAdd(Ret(m.c), Ret(n.c)), TAdd(Ret(m.d), Ret(n.d)))
               /\ SmallMatrix(m) /\ SmallMatrix(n) =>
                      out = Ret(MatrixNew(m.a + n.a, m.b + n.b, m.c + n.c, m.d + n.d))
               /\ m = n => out = MatrixScale(m, 2)
    /\ call = "v + w" =>
           LET v == lhs.val
               w == rhs.val
           IN  /\ out = VectorOf(TAdd(Ret(v.x), Ret(w.x)), TAdd(Ret(v.y), Ret(w.y)))
               /\ SmallVector(v) /\ SmallVector(w) =>
                      out = Ret(VectorNew(v.x + w.x, v.y + w.y))
               /\ v = w => out = VectorScale(v, 2)
    /\ call = "m.scale(k)" /\ rhs.val = 2 => out = MatrixAdd(lhs.val, lhs.val)
    /\ call = "v.scale(k)" /\ rhs.val = 2 => out = VectorAdd(lhs.val, lhs.val)

C5_Witness ==
    /\ call = "m + n"
    /\ lhs.val = TestMatrix
    /\ rhs.val = TestMatrix
    /\ out = Ret(MatrixNew(2, 4, 6, 8))
    /\ out = MatrixScale(lhs.val, 2)

\* C6 as claimed: both groupings of a three-factor product have the same
\* outcome for every triple of i32 matrices.
C6_SameOutcome ==
    call = "a * (b * c)" => prev = out

\* C6 as amended: without overflow checks both groupings return, and return
\* the same matrix; with them, the groupings that both return agree (one may
\* panic where the other returns); on components within -100..100 both
\* return in either build.
C6_AssociativeWhereBothReturn ==
    call = "a * (b * c)" =>
        LET Tiny(m) == \A e \in {m.a, m.b, m.c, m.d} : -100 <= e /\ e <= 100
        IN  /\ ~overflow_checks => prev.ok /\ out.ok /\ prev = out
            /\ prev.ok /\ out.ok => prev = out
            /\ Tiny(lhs.val) /\ Tiny(rhs.val) /\ Tiny(third.val) =>
                   prev.ok /\ out.ok /\ prev = out

C6_Witness ==
    /\ call = "a * (b * c)"
    /\ lhs.val = TestMatrix
    /\ rhs.val = ROTATE_90
    /\ third.val = TestMatrix
    /\ prev = Ret(MatrixNew(-1, 0, -5, -4))
    /\ out = prev

\* Some product or sum the call evaluates leaves the i32 range.
DotOverflows(p, x, q, y) ==
    \/ MulOverflows(p, x)
    \/ MulOverflows(q, y)
    \/ AddOverflows(WrappingMul(p, x), WrappingMul(q, y))

CallOverflows ==
    LET l == lhs.val
        r == rhs.val
    IN  CASE call \in {"m.scale(k)", "m * k"} ->
                 \E e \in {l.a, l.b, l.c, l.d} : MulOverflows(r, e)
          [] call \in {"v.scale(k)", "v * k"} ->
                 \E e \in {l.x, l.y} : MulOverflows(r, e)
          [] call = "m + n" ->
                 \/ AddOverflows(l.a, r.a) \/ AddOverflows(l.b, r.b)
                 \/ AddOverflows(l.c, r.c) \/ AddOverflows(l.d, r.d)
          [] call = "v + w" ->
                 AddOverflows(l.x, r.x) \/ AddOverflows(l.y, r.y)
          [] call = "m * v" ->
                 DotOverflows(l.a, r.x, l.b, r.y) \/ DotOverflows(l.c, r.x, l.d, r.y)
          [] call = "m * n" ->
                 \/ DotOverflows(l.a, r.a, l.b, r.c) \/ DotOverflows(l.a, r.b, l.b, r.d)
                 \/ DotOverflows(l.c, r.a, l.d, r.c) \/ DotOverflows(l.c, r.b, l.d, r.d)
          [] OTHER -> FALSE

SmallOperand(o) ==
    CASE o.kind = "matrix" -> SmallMatrix(o.val)
      [] o.kind = "vector" -> SmallVector(o.val)
      [] o.kind = "scalar" -> SmallT(o.val)
      [] OTHER -> TRUE

\* C7 as claimed: every operation returns a Matrix or Vector for every
\* input; no input aborts it.
C7_AlwaysReturns ==
    call # "init" => out.ok

\* C7 as amended: no operation has an error return; from_vectors, left,
\* right and transpose return for every input; an arithmetic operation
\* returns unless the build checks overflow and a product or sum it
\* evaluates leaves the i32 range, and then it panics.  Without overflow
\* checks, and on small components, every operation returns.
C7_ReturnsUnlessCheckedOverflow ==
    call # "init" =>
        /\ out.ok <=> ~(overflow_checks /\ CallOverflows)
        /\ ~overflow_checks => out.ok
        /\ SmallOperand(lhs) /\ SmallOperand(rhs) => out.ok
        /\ call \notin {"m.scale(k)", "m * k", "v.scale(k)", "v * k",
                        "m + n", "v + w", "m * v", "m * n"} => out.ok

C7_Witness ==
    /\ call = "m * n"
    /\ overflow_checks
    /\ lhs.val = MatrixNew(I32_MAX, 0, 0, 0)
    /\ rhs.val = MatrixNew(I32_MAX, 0, 0, 0)
    /\ out = Panic

\* C8: transpose returns (a, c, b, d) for the matrix (a, b, c, d), and is an
\* involution: m.transpose().transpose() is m.
C8_TransposeInvolution ==
    /\ call = "m.transpose()" =>
           out = Ret(MatrixNew(lhs.val.a, lhs.val.c, lhs.val.b, lhs.val.d))
    /\ call = "m.transpose().transpose()" => out = Ret(lhs.val)

C8_Witness ==
    /\ call = "m.transpose().transpose()"
    /\ lhs.val = TestMatrix
    /\ out = Ret(TestMatrix)

\* C9: each catalogue constant acts on every i32 vector (x, y) as its name
\* says: IDENTITY gives (x, y), ROTATE_90 (-y, x), ROTATE_180 (-x, -y),
\* ROTATE_270 (y, -x), FLIP_X (-x, y), FLIP_Y (x, -y), the minus being T's.
C9_CatalogueActs ==
    call = "m * v" =>
        LET m == lhs.val
            x == rhs.val.x
            y == rhs.val.y
        IN  /\ m = IDENTITY => out = Ret(VectorNew(x, y))
            /\ m = ROTATE_90 => out = VectorOf(NegT(y), Ret(x))
            /\ m = ROTATE_180 => out = VectorOf(NegT(x), NegT(y))
            /\ m = ROTATE_270 => out = VectorOf(Ret(y), NegT(x))
            /\ m = FLIP_X => out = VectorOf(NegT(x), Ret(y))
            /\ m = FLIP_Y => out = VectorOf(Ret(x), NegT(y))
            /\ x = 1 /\ y = 2 =>
                   /\ m = ROTATE_90 => out = Ret(VectorNew(-2, 1))
                   /\ m = ROTATE_180 => out = Ret(VectorNew(-1, -2))
                   /\ m = ROTATE_270 => out = Ret(VectorNew(2, -1))
                   /\ m = FLIP_X => out = Ret(VectorNew(-1, 2))
                   /\ m = FLIP_Y => out = Ret(VectorNew(1, -2))

C9_Witness ==
    /\ call = "m * v"
    /\ lhs.val = ROTATE_90
    /\ rhs.val = VectorNew(1, 2)
    /\ out = Ret(VectorNew(-2, 1))

\* C10: the catalogue constants compose to the identity as inverses:
\* ROTATE_90 * ROTATE_270, FLIP_X * FLIP_X and FLIP_Y * FLIP_Y are IDENTITY,
\* which is (1, 0, 0, 1).
C10_CatalogueInverses ==
    /\ IDENTITY = MatrixNew(1, 0, 0, 1)
    /\ call = "m * n" =>
           /\ lhs.val = ROTATE_90 /\ rhs.val = ROTATE_270 => out = Ret(IDENTITY)
           /\ lhs.val = FLIP_X /\ rhs.val = FLIP_X => out = Ret(IDENTITY)
           /\ lhs.val = FLIP_Y /\ rhs.val = FLIP_Y => out = Ret(IDENTITY)

C10_Witness ==
    /\ call = "m * n"
    /\ lhs.val = ROTATE_90
    /\ rhs.val = ROTATE_270
    /\ out = Ret(MatrixNew(1, 0, 0, 1))

=============================================================================
